---- MODULE Spec2Model ----
(***************************************************************************)
(* Model of the animation sampler (renderAllAnimations / renderAnimation / *)
(* getAnimationNodes), of the summon section of the statue exporter        *)
(* (createMCFile) and of injectSvelteCompomponent.                         *)
(*                                                                         *)
(* Times are integers in 1/1000 s, so one 1/20 s tick is 50.               *)
(* A world matrix is <<lin, pos>>: its linear (rotation/scale) part and    *)
(* its translation.  A matrix read back by getNodeMatrix has its           *)
(* translation in 1/10000 (0.5 is 5000).                                   *)
(***************************************************************************)
EXTENDS Integers, Sequences, FiniteSets, TLC

VARIABLES
    Animator_animations, \* Animator.animations: the project's animations (ids)
    Mode_selected,       \* Mode.selected.id
    Animator_selected,   \* Animator.selected (id or "none")
    Timeline_time,       \* Timeline.time
    scene,               \* the posed rig: uuid -> world matrix (node.mesh.matrixWorld)
    listeners,           \* what the host runs once a frame is displayed
    lastAnimation,       \* module variable lastAnimation
    previousFrame,       \* module variable previousFrame: uuid -> [matrix, interpolation]
    lastPass,            \* history: the latest frame getAnimationNodes sampled
    progress,            \* module variable progress is assigned
    calls,               \* one record per call of renderAllAnimations or
                         \* renderAnimation: its locals, where it stands, what it
                         \* gave its caller, and its history
    budget,              \* what is left of the bound on the behaviour
    mcIn,                \* createMCFile's arguments
    mcOut,               \* createMCFile's summon functions (None before the call)
    mcFile,              \* the scoreboard objectives the generated functions use
                         \* (None before the call)
    modInstalled,        \* the injecting mod is installed
    installedContext,    \* what the mod's install callback returned (0: undefined,
                         \* k: the component of mount k)
    elementPresent,      \* options.elementSelector() finds its element
    hasPostMount,        \* options.postMount is given
    mounts               \* one record per run of the install callback

vars == <<Animator_animations, Mode_selected, Animator_selected, Timeline_time, scene,
          listeners, lastAnimation, previousFrame, lastPass, progress, calls, budget,
          mcIn, mcOut, mcFile,
          modInstalled, installedContext, elementPresent, hasPostMount, mounts>>

samplerVars == <<Animator_animations, Mode_selected, Animator_selected, Timeline_time, scene,
          listeners, lastAnimation, previousFrame, lastPass, progress, calls, budget>>

mcVars == <<mcIn, mcOut, mcFile>>

injVars == <<modInstalled, installedContext, elementPresent, hasPostMount, mounts>>

otherVars == <<mcVars, injVars>>

----------------------------------------------------------------------------
(* Bounds *)

MaxAnims == 2
MaxSamples == 3
MaxVariants == 2
MaxInstalls == 3

(* The units of MaxSamples a step takes in which a host call throws. *)
ThrowWeight == 2

(* One tick: the 0.05 of the loop of renderAnimation, in 1/1000 s. *)
Tick == 50

----------------------------------------------------------------------------
(* The rig: IRenderedRig.nodeMap in Object.entries order. *)

M(lin, pos) == <<lin, pos>>

Node(uuid, type, export, scale) ==
    [uuid |-> uuid, name |-> uuid, type |-> type, export |-> export, scale |-> scale]

RigNodeMap ==
    << Node("b1", "bone", TRUE, 2),
       Node("b2", "bone", TRUE, 1),
       Node("b3", "bone", FALSE, 1),
       Node("c1", "camera", TRUE, 1),
       Node("l1", "locator", TRUE, 1) >>

NodeIds == {RigNodeMap[i].uuid : i \in 1..Len(RigNodeMap)}

RestPose == [u \in NodeIds |-> M(1, 0)]

----------------------------------------------------------------------------
(* The project's animations: host objects (_Animation).  `pose` stands for *)
(* what the host's animators display at each tick of the timeline.         *)

(* An optional value (x | undefined) is a sequence of at most one element. *)
None == <<>>
Some(x) == <<x>>

(* animation.animators.effects is undefined, or lacks a channel: the       *)
(* channel is not in the DOMAIN of effects.                                *)
NoEffects == [c \in {} |-> <<>>]

KF(t, interpolation) == [time |-> t, interpolation |-> interpolation]
EK(t, value, cond) == [time |-> t, value |-> value, executeCondition |-> cond]

AnimIdle ==
    [ name |-> "idle", length |-> 100, loop |-> "once",
      affected_bones |-> <<"b1", "c1", "b3", "l1">>, affected_bones_is_a_whitelist |-> TRUE,
      animators |-> [b1 |-> <<KF(0, "step"), KF(25, "step")>>,
                     c1 |-> <<KF(50, "step")>>],
      effects |-> [variants |-> <<EK(50, "v1", ""), EK(50, "v2", "c"), EK(25, "v3", "")>>,
                   commands |-> <<EK(0, "say a", ""), EK(100, "say c", "")>>],
      pose |-> [b1 |-> <<M(1, 0), M(1, 0), M(1, 16)>>,
                b2 |-> <<M(1, 0), M(1, 16), M(1, 32)>>,
                b3 |-> <<M(1, 0), M(1, 0), M(1, 0)>>,
                c1 |-> <<M(2, 16), M(2, 16), M(2, 16)>>,
                l1 |-> <<M(1, 0), M(1, 8), M(2, 8)>>] ]

AnimPose ==
    [ name |-> "pose", length |-> 0, loop |-> "hold",
      affected_bones |-> <<"b2">>, affected_bones_is_a_whitelist |-> FALSE,
      animators |-> [b1 |-> <<KF(0, "linear"), KF(0, "step")>>],
      effects |-> [variants |-> <<>>,
                   animationStates |-> <<EK(0, "idle", "c")>>],
      pose |-> [b1 |-> <<M(1, 16)>>,
                b2 |-> <<M(1, 0)>>,
                b3 |-> <<M(1, 0)>>,
                c1 |-> <<M(1, 0)>>,
                l1 |-> <<M(2, 32)>>] ]

AnimationPool == [idle |-> AnimIdle, pose |-> AnimPose]

AnimIds == DOMAIN AnimationPool

Anim(id) == AnimationPool[id]

----------------------------------------------------------------------------
(* Host: what animation.getBoneAnimator(node).displayFrame(1) and          *)
(* scene.updateMatrixWorld() leave in node.mesh.matrixWorld at Timeline    *)
(* time t (the last tick's pose past the end of the animation).            *)

MinOf(a, b) == IF a <= b THEN a ELSE b

HostPose(animId, t) ==
    [u \in NodeIds |->
        LET track == Anim(animId).pose[u]
        IN  track[MinOf(t \div Tick + 1, Len(track))]]

roundToNUnscaled(n, x) == ((n * x + 500) \div 1000) * 1000

(* Math.round(n * x) / x on times in 1/1000 s. *)
roundToN(n, x) == ((n * x + 500) \div 1000) * (1000 \div x)

(* getNodeMatrix: the translation of the clone times 1/16 (read back in     *)
(* 1/10000, so that 8 gives 5000, i.e. 0.5), then its linear part times    *)
(* scale.  node.mesh.matrixWorld itself is left as it is.                  *)
getNodeMatrix(matrixWorld, scale) ==
    <<matrixWorld[1] * scale, (matrixWorld[2] * 10000) \div 16>>

(* Array.prototype.equals of the host: same length, element by element. *)
ArrayEquals(a, b) ==
    /\ Len(a) = Len(b)
    /\ \A i \in 1..Len(a) : a[i] = b[i]

(* animation.affected_bones.find(b => b.value === uuid) *)
Included(animation, uuid) ==
    \E i \in 1..Len(animation.affected_bones) : animation.affected_bones[i] = uuid

IgnoredWhitelistOnly(animation, uuid) ==
    ~Included(animation, uuid) /\ animation.affected_bones_is_a_whitelist

(* The affected-bones rule: the node is ignored by this animation. *)
Ignored(animation, uuid) ==
    \/ ~Included(animation, uuid) /\ animation.affected_bones_is_a_whitelist
    \/ Included(animation, uuid) /\ ~animation.affected_bones_is_a_whitelist

(* animator?.keyframes.filter(k => k.time === time).find(k => k.interpolation === 'step') *)
HasStepKeyframe(animation, uuid, t) ==
    /\ uuid \in DOMAIN animation.animators
    /\ \E i \in 1..Len(animation.animators[uuid]) :
          /\ animation.animators[uuid][i].time = t
          /\ animation.animators[uuid][i].interpolation = "step"

(* The switch on node.type: the interpolation marker of the node. *)
Interpolation(node, animation, t, prev) ==
    IF node.type = "bone"
    THEN IF HasStepKeyframe(animation, node.uuid, t) THEN "instant"
         ELSE IF node.uuid \in DOMAIN prev /\ prev[node.uuid].interpolation = "instant"
              THEN "default"
              ELSE "none"
    ELSE "none"

(* The switch on node.type: the matrix read back for the node. *)
SampleMatrix(node, sc) ==
    IF node.type = "bone"
    THEN getNodeMatrix(sc[node.uuid], node.scale)
    ELSE getNodeMatrix(sc[node.uuid], 1)

SkipNever(prev, uuid, matrixArray, interpolation) == FALSE

(* The diff against previousFrame: the node is left out of the frame. *)
ShouldSkip(prev, uuid, matrixArray, interpolation) ==
    /\ uuid \in DOMAIN prev
    /\ ArrayEquals(prev[uuid].matrix, matrixArray)
    /\ prev[uuid].interpolation = interpolation

(* if (lastAnimation !== animation) { lastAnimation = animation; previousFrame = {} } *)
ResetDiff(animId, lastA, prev) ==
    IF lastA # animId THEN [n \in {} |-> <<>>] ELSE prev

(* One iteration of the loop over Object.entries(nodeMap).  acc holds      *)
(* nodes, previousFrame and (history) what was sampled for each node that  *)
(* passed the export and affected-bones tests.                             *)
VisitNode(animation, node, t, sc, acc) ==
    IF ~node.export \/ Ignored(animation, node.uuid) THEN acc
    ELSE
      LET interpolation == Interpolation(node, animation, t, acc.previousFrame)
          matrix == SampleMatrix(node, sc)
          smp == (node.uuid :> [matrix |-> matrix, interpolation |-> interpolation])
                    @@ acc.sampled
      IN  IF ShouldSkip(acc.previousFrame, node.uuid, matrix, interpolation)
          THEN [acc EXCEPT !.sampled = smp]
          ELSE [ nodes |-> Append(acc.nodes,
                              [type |-> node.type, name |-> node.name, uuid |-> node.uuid,
                               matrix |-> matrix, pos |-> matrix[2], scale |-> matrix[1],
                               interpolation |-> interpolation]),
                 previousFrame |-> (node.uuid :> [matrix |-> matrix,
                                                  interpolation |-> interpolation])
                                      @@ acc.previousFrame,
                 sampled |-> smp ]

RECURSIVE VisitNodes(_, _, _, _, _, _)
VisitNodes(animation, nodeMap, n, t, sc, acc) ==
    IF n = 0 THEN acc
    ELSE VisitNode(animation, nodeMap[n], t, sc,
                   VisitNodes(animation, nodeMap, n - 1, t, sc, acc))

(* getAnimationNodes, stopped after its first n nodes (n = Len(nodeMap):   *)
(* the whole call).  Gives nodes and the new lastAnimation, previousFrame. *)
getAnimationNodesUpTo(animId, nodeMap, n, t, sc, lastA, prev) ==
    LET acc == VisitNodes(Anim(animId), nodeMap, n, t, sc,
                          [nodes |-> <<>>, previousFrame |-> ResetDiff(animId, lastA, prev),
                           sampled |-> [u \in {} |-> <<>>]])
    IN  [nodes |-> acc.nodes, lastAnimation |-> animId,
         previousFrame |-> acc.previousFrame, sampled |-> acc.sampled]

getAnimationNodes(animId, nodeMap, t, sc, lastA, prev) ==
    getAnimationNodesUpTo(animId, nodeMap, Len(nodeMap), t, sc, lastA, prev)

----------------------------------------------------------------------------
(* Effect keyframes *)

RECURSIVE FirstAt(_, _, _)
FirstAt(kfs, t, i) ==
    IF i > Len(kfs) THEN None
    ELSE IF kfs[i].time = t THEN Some(kfs[i])
    ELSE FirstAt(kfs, t, i + 1)

EffectData(field, kf) ==
    Some([value |-> kf[1].value, executeCondition |-> kf[1].executeCondition,
          field |-> field])

getEffectKeyframeLast(animation, channel, field, t) ==
    IF channel \notin DOMAIN animation.effects THEN None
    ELSE LET kfs == animation.effects[channel]
             at == {i \in 1..Len(kfs) : kfs[i].time = t}
         IN  IF at = {} THEN None
             ELSE EffectData(field, Some(kfs[CHOOSE i \in at : \A j \in at : j <= i]))

(* getVariantKeyframe / getCommandsKeyframe / getAnimationStateKeyframe:    *)
(* the first keyframe of the channel with kf.time === time.  `field` is    *)
(* the key the data is returned under (uuid, commands, animation).         *)
getEffectKeyframe(animation, channel, field, t) ==
    IF channel \notin DOMAIN animation.effects THEN None
    ELSE LET kf == FirstAt(animation.effects[channel], t, 1)
         IN  IF kf = None THEN None ELSE EffectData(field, kf)

getVariantKeyframe(animation, t) == getEffectKeyframe(animation, "variants", "uuid", t)
getCommandsKeyframe(animation, t) == getEffectKeyframe(animation, "commands", "commands", t)
getAnimationStateKeyframe(animation, t) ==
    getEffectKeyframe(animation, "animationStates", "animation", t)

----------------------------------------------------------------------------
(* The sampler as a process.  An async function runs until its next await: *)
(* each action below is one such stretch of one call.  The exported        *)
(* functions take no lock, so calls may overlap: they share the editor,    *)
(* lastAnimation, previousFrame and progress.                              *)

(* The project's animations: at most MaxAnims of the pool, each once, in   *)
(* any order.                                                              *)
Distinct(s) == \A i, j \in 1..Len(s) : i # j => s[i] # s[j]

AnimLists == {s \in UNION {[1..n -> AnimIds] : n \in 0..MaxAnims} : Distinct(s)}

IdsOf(list) == {list[i] : i \in 1..Len(list)}

(* The animation a caller hands renderAnimation or getAnimationNodes: any  *)
(* of the project's.                                                       *)
CallerAnimations(list) == IdsOf(list)

(* The time a caller hands getAnimationNodes (0 when it hands none). *)
CallerTimes == {0, Tick, 2 * Tick}

(* Animator.selected: any of the project's animations. *)
UserSelections(list) == IdsOf(list)

PreviewOf(sel, t) == IF sel = "none" THEN RestPose ELSE HostPose(sel, t)

EmptyDiff == [n \in {} |-> <<>>]

(* The frames of getAnimationNodes are its calls, in the order they run.   *)
(* Of the latest one: whether it was the first frame of an animation (it   *)
(* reset previousFrame), what it sampled, the nodes it put in its list, and *)
(* for every node what the latest frame that sampled it since the reset    *)
(* had sampled, before this frame (prior) and with it (last).              *)
NoPass ==
    [animation |-> "none", reset |-> FALSE, prior |-> EmptyDiff, sampled |-> EmptyDiff,
     nodes |-> <<>>, last |-> EmptyDiff]

PassOf(animId, lastA, g, pass) ==
    LET prior == IF lastA # animId THEN EmptyDiff ELSE pass.last
    IN  [animation |-> animId, reset |-> (lastA # animId), prior |-> prior,
         sampled |-> g.sampled, nodes |-> g.nodes, last |-> g.sampled @@ prior]

NewRendered(animId) ==
    [name |-> Anim(animId).name, frames |-> <<>>, duration |-> 0,
     loopMode |-> Anim(animId).loop, animation |-> animId]

NoRendered == [name |-> "", frames |-> <<>>, duration |-> 0, loopMode |-> "", animation |-> "none"]

(* What the host has registered to run once a frame is displayed          *)
(* (animation.effects.displayFrame, the listeners of                       *)
(* 'display_animation_frame'): nothing that touches the scene, or a        *)
(* listener that moves the locator l1.                                     *)
ListenerSets == {{}, {"moveL1"}}

(* animation.effects.displayFrame() and                                    *)
(* Blockbench.dispatchEvent('display_animation_frame'): what is registered *)
(* runs, synchronously, on the posed scene.                                *)
dispatchEvent(ls, sc) ==
    IF "moveL1" \in ls THEN [sc EXCEPT !["l1"] = M(1, 48)] ELSE sc

(* The editor as a call may find it: animate or edit mode, with one of the *)
(* project's animations selected and the timeline moved, or with none.     *)
EditorStates(list) ==
    {[mode |-> m, selected |-> a, time |-> Tick] :
        m \in {"animate", "edit"}, a \in UserSelections(list)}
        \cup {[mode |-> m, selected |-> "none", time |-> 0] : m \in {"animate", "edit"}}

InitWith(steps) ==
    /\ Animator_animations \in AnimLists
    /\ \E e \in EditorStates(Animator_animations) :
          /\ Mode_selected = e.mode
          /\ Animator_selected = e.selected
          /\ Timeline_time = e.time
    /\ scene = IF Mode_selected = "animate" THEN PreviewOf(Animator_selected, Timeline_time)
               ELSE RestPose
    /\ listeners \in ListenerSets
    /\ lastAnimation = "none"
    /\ previousFrame = EmptyDiff
    /\ lastPass = NoPass
    /\ progress = FALSE
    /\ calls = <<>>
    /\ budget = steps
    /\ mcIn = None
    /\ mcOut = None
    /\ mcFile = None
    /\ modInstalled = FALSE
    /\ installedContext = 0
    /\ elementPresent = FALSE
    /\ hasPostMount = FALSE
    /\ mounts = <<>>

Init == InitWith(MaxSamples)

(* The same with one step more: a frame, a preview by the user, a call of  *)
(* getAnimationNodes and the next frame are four.                          *)
InitLong == InitWith(MaxSamples + 1)

UpdatePreviewNoPose(animId, t) == [Timeline_time |-> t, scene |-> scene]

(* updatePreview: Timeline.time = time, then every animator displays its   *)
(* frame, the scene's world matrices are updated, the effects are          *)
(* displayed and the listeners of 'display_animation_frame' run.           *)
updatePreview(animId, t) ==
    [Timeline_time |-> t, scene |-> dispatchEvent(listeners, HostPose(animId, t))]

(* The world matrices a throw inside updatePreview may leave: those it     *)
(* found, the default pose, the animation's pose, or that pose after the   *)
(* listeners ran.                                                          *)
PartialPoses(animId, t) ==
    {scene, RestPose, HostPose(animId, t), updatePreview(animId, t).scene}

(* The object pushed on rendered.frames. *)
MakeFrame(animId, t, nodes) ==
    [time |-> t, nodes |-> nodes,
     variant |-> getVariantKeyframe(Anim(animId), t),
     commands |-> getCommandsKeyframe(Anim(animId), t),
     animationState |-> getAnimationStateKeyframe(Anim(animId), t)]

(* Where a host call of one loop iteration of renderAnimation may throw    *)
(* before the await: 0 in updatePreview, n while getAnimationNodes visits  *)
(* its n-th node, Len(nodeMap) + 1 after the last node (the effect         *)
(* getters, progress.add).                                                 *)
ThrowPoints == 0..(Len(RigNodeMap) + 1)

(* The loop iteration reaches its await. *)
NoThrow == Len(RigNodeMap) + 2

(* The host calls outside the loop body that may throw:                    *)
(* progress.update() in the then-callback of clock.sync(), once the call   *)
(* has yielded (or clock.sync() itself rejecting);                         *)
ThrowUpdate == NoThrow + 1

(* animation.select() or new LimitClock(10) at the head of renderAnimation; *)
ThrowSelect == NoThrow + 2

(* new ProgressBarController(...), before progress is assigned;            *)
ThrowProgress == NoThrow + 3

(* Timeline.pause();                                                       *)
ThrowPause == NoThrow + 4

(* the k-th host call of the restore at the end of renderAllAnimations     *)
(* (select, setTime, preview in animate mode; showDefaultPose in edit      *)
(* mode).                                                                  *)
ThrowRestore == (NoThrow + 5)..(NoThrow + 7)

FrameOutcomes == ThrowPoints \cup {NoThrow}

Outcomes ==
    FrameOutcomes \cup {ThrowUpdate, ThrowSelect, ThrowProgress, ThrowPause} \cup ThrowRestore

(* The nodes getAnimationNodes has visited when the iteration ends. *)
Visited(outcome) ==
    IF outcome > Len(RigNodeMap) THEN Len(RigNodeMap)
    ELSE IF outcome = 0 THEN 0
    ELSE outcome - 1

CatchAndReturn(call) == [call EXCEPT !.pc = "done", !.returned = Some(call.animations)]

(* Neither renderAnimation nor renderAllAnimations has a try/catch: an     *)
(* exception leaves the call, whose promise rejects; its locals are gone.  *)
Rethrow(call) == [call EXCEPT !.pc = "rejected"]

(* An exception leaves renderAnimation.  Called by itself that is the end  *)
(* of the call; called by renderAllAnimations its promise rejects, and the *)
(* await of renderAllAnimations delivers the rejection when it resumes.    *)
ThrowInRender(call) ==
    IF call.kind = "all" THEN [call EXCEPT !.pc = "awaitRejected"] ELSE Rethrow(call)

(* The locals of a call (kind "all": renderAllAnimations, "one":           *)
(* renderAnimation), where it stands (pc), what its caller got (returned)  *)
(* and its history: the editor state it found (pre) and left (post), the   *)
(* <<animation, time>> of every updatePreview (posedLog), per frame of the *)
(* animation being rendered what was sampled (sampledLog), and whether the *)
(* animation began by resetting previousFrame (resetAtStart).              *)
NewCall(kind, selAnim, curTime) ==
    [kind |-> kind, pc |-> "sync", animIdx |-> 0, animation |-> "none", time |-> 0,
     rendered |-> NoRendered, animations |-> <<>>,
     selectedAnimation |-> selAnim, currentTime |-> curTime,
     returned |-> None,
     pre |-> [selected |-> Animator_selected, time |-> Timeline_time], post |-> None,
     posedLog |-> <<>>, sampledLog |-> <<>>, resetAtStart |-> FALSE]

(* The bound on a behaviour: MaxSamples units, of which a call made, a     *)
(* frame posed and a preview by the user take one, and a step in which a   *)
(* host call throws takes ThrowWeight.  What is left of a call when the    *)
(* units are used up (the end of its loop, the await of                    *)
(* renderAllAnimations, the restore, an exception on its way) takes none.  *)
Cost(outcome) == IF outcome = NoThrow THEN 1 ELSE ThrowWeight

(* What a stretch that changes nothing but its call leaves. *)
Unchanged(call) ==
    [call |-> call, Animator_selected |-> Animator_selected,
     Timeline_time |-> Timeline_time, scene |-> scene,
     lastAnimation |-> lastAnimation, previousFrame |-> previousFrame,
     lastPass |-> lastPass, cost |-> 0]

(* A host call outside the loop body threw: the editor is as the failing   *)
(* call left it.                                                           *)
Reject(call, sel, tt, sc) ==
    [Unchanged(call) EXCEPT !.Animator_selected = sel, !.Timeline_time = tt, !.scene = sc,
                            !.cost = Cost(ThrowSelect)]

(* The body of the loop of renderAnimation for time t, up to its await.    *)
(* sel is Animator.selected as the frame is posed, sc the scene a throw    *)
(* inside updatePreview leaves, prog whether progress is assigned: without *)
(* it progress.add(1) throws after the frame was pushed.                   *)
RenderFrame(call, t, sel, outcome, sc, prog) ==
    LET animId == call.animation
        up == updatePreview(animId, t)
        g  == getAnimationNodesUpTo(animId, RigNodeMap, Visited(outcome), t, up.scene,
                                    lastAnimation, previousFrame)
        posed == [call EXCEPT !.time = t, !.posedLog = Append(@, <<animId, t>>)]
        thrown == ThrowInRender(posed)
        entry == [sampled |-> g.sampled]
    IN  IF outcome = 0
        THEN [call |-> thrown, Animator_selected |-> sel,
              Timeline_time |-> up.Timeline_time, scene |-> sc,
              lastAnimation |-> lastAnimation, previousFrame |-> previousFrame,
              lastPass |-> lastPass, cost |-> Cost(outcome)]
        ELSE [call |-> IF outcome = NoThrow /\ prog
                       THEN [posed EXCEPT
                                !.rendered.frames = Append(@, MakeFrame(animId, t, g.nodes)),
                                !.sampledLog = Append(@, entry)]
                       ELSE thrown,
              Animator_selected |-> sel,
              Timeline_time |-> up.Timeline_time, scene |-> up.scene,
              lastAnimation |-> g.lastAnimation, previousFrame |-> g.previousFrame,
              lastPass |-> PassOf(animId, lastAnimation, g, lastPass),
              cost |-> Cost(outcome)]

(* renderAnimation up to its first await: animation.select(), frame 0      *)
(* (the loop test 0 <= animation.length holds of every host animation).    *)
BeginAnimation(call, i, animId, outcome, sc, prog) ==
    RenderFrame([call EXCEPT !.animIdx = i, !.animation = animId,
                             !.rendered = NewRendered(animId),
                             !.sampledLog = <<>>,
                             !.resetAtStart = (lastAnimation # animId)],
                0, animId, outcome, sc, prog)

(* The end of renderAllAnimations: restore the selected animation. *)
Restore(mode, selAnim, curTime, sel, tt, sc) ==
    IF mode = "animate" /\ selAnim # "none"
    THEN [selected |-> selAnim, time |-> curTime, scene |-> HostPose(selAnim, curTime)]
    ELSE IF mode = "edit"
    THEN [selected |-> sel, time |-> tt, scene |-> RestPose]
    ELSE [selected |-> sel, time |-> tt, scene |-> sc]

Finish(call, done) ==
    LET r == Restore(Mode_selected, call.selectedAnimation, call.currentTime,
                     Animator_selected, Timeline_time, scene)
    IN  [Unchanged([call EXCEPT !.pc = "done", !.returned = Some(done),
                                !.post = Some([selected |-> r.selected, time |-> r.time])])
            EXCEPT !.Animator_selected = r.selected, !.Timeline_time = r.time,
                   !.scene = r.scene]

(* A stretch of call number c ends: its record and the shared state.       *)
Commit(c, r) ==
    /\ calls' = IF c > Len(calls) THEN Append(calls, r.call) ELSE [calls EXCEPT ![c] = r.call]
    /\ Animator_selected' = r.Animator_selected
    /\ Timeline_time' = r.Timeline_time
    /\ scene' = r.scene
    /\ lastAnimation' = r.lastAnimation
    /\ previousFrame' = r.previousFrame
    /\ lastPass' = r.lastPass
    /\ budget' = budget - r.cost

(* The scenes the frame (animId, t) may leave with this outcome. *)
Scenes(animId, t, outcome) == IF outcome = 0 THEN PartialPoses(animId, t) ELSE {scene}

(* Call number c enters renderAnimation(animId) and runs up to its first   *)
(* await; a throw at its head leaves the animation selected or not.        *)
Begin(c, call, i, animId, outcome, prog) ==
    IF outcome = ThrowSelect
    THEN \E sel \in {Animator_selected, animId} :
            Commit(c, Reject(ThrowInRender(call), sel, Timeline_time, scene))
    ELSE /\ outcome \in FrameOutcomes
         /\ \E sc \in Scenes(animId, 0, outcome) :
               Commit(c, BeginAnimation(call, i, animId, outcome, sc, prog))

(* The host calls the restore makes. *)
RestoreCalls(mode, selAnim) ==
    IF mode = "animate" /\ selAnim # "none" THEN 3
    ELSE IF mode = "edit" THEN 1
    ELSE 0

(* Call number c of renderAllAnimations restores the editor and returns    *)
(* `done`; when the k-th host call of the restore throws, those before it  *)
(* have acted, and a call that poses the scene may have posed it.          *)
End(c, call, done, outcome, cost) ==
    LET r == Restore(Mode_selected, call.selectedAnimation, call.currentTime,
                     Animator_selected, Timeline_time, scene)
        n == RestoreCalls(Mode_selected, call.selectedAnimation)
        k == outcome - NoThrow - 4
    IN  IF outcome = NoThrow
        THEN Commit(c, [Finish(call, done) EXCEPT !.cost = cost])
        ELSE /\ outcome \in ThrowRestore
             /\ budget >= Cost(outcome)
             /\ k <= n
             /\ \E sc \in (IF k = n THEN {scene, r.scene} ELSE {scene}) :
                   Commit(c, Reject(Rethrow(call),
                                    IF k > 1 THEN r.selected ELSE Animator_selected,
                                    IF k > 2 THEN r.time ELSE Timeline_time,
                                    sc))

(* renderAllAnimations is called: it runs up to the await of the first     *)
(* frame of the first animation, or to its end when there is none.         *)
RenderAllAnimations(outcome) ==
    /\ budget >= Cost(outcome)
    /\ progress' = (progress \/ outcome # ThrowProgress)
    /\ LET selAnim == IF Mode_selected = "animate" THEN Animator_selected ELSE "none"
           curTime == IF Mode_selected = "animate" THEN Timeline_time ELSE 0
           call == NewCall("all", selAnim, curTime)
       IN  IF outcome \in {ThrowProgress, ThrowPause}
           THEN Commit(Len(calls) + 1,
                       Reject(Rethrow([call EXCEPT !.selectedAnimation = "none",
                                                   !.currentTime = 0]),
                              Animator_selected, Timeline_time, scene))
           ELSE IF Animator_animations = <<>>
           THEN End(Len(calls) + 1, call, <<>>, outcome, 1)
           ELSE Begin(Len(calls) + 1, call, 1, Animator_animations[1], outcome, TRUE)
    /\ UNCHANGED <<Animator_animations, Mode_selected, listeners, otherVars>>

(* renderAnimation is called by itself: it runs up to its first await.     *)
RenderAnimation(animId, outcome) ==
    /\ budget >= Cost(outcome)
    /\ Begin(Len(calls) + 1, NewCall("one", "none", 0), 0, animId, outcome, progress)
    /\ UNCHANGED <<Animator_animations, Mode_selected, listeners, progress, otherVars>>

(* getAnimationNodes is called by itself, on the scene as it is; a throw   *)
(* while it visits a node leaves the nodes before it visited.  It is       *)
(* synchronous: of the call nothing stays but lastAnimation and            *)
(* previousFrame (the nodes go to the caller).                             *)
GetAnimationNodes(animId, t, outcome) ==
    /\ budget >= Cost(outcome)
    /\ outcome \in (1..Len(RigNodeMap)) \cup {NoThrow}
    /\ LET g == getAnimationNodesUpTo(animId, RigNodeMap, Visited(outcome), t, scene,
                                      lastAnimation, previousFrame)
       IN  /\ lastAnimation' = g.lastAnimation
           /\ previousFrame' = g.previousFrame
           /\ lastPass' = PassOf(animId, lastAnimation, g, lastPass)
           /\ budget' = budget - Cost(outcome)
    /\ UNCHANGED <<Animator_animations, Mode_selected, Animator_selected, Timeline_time,
                   scene, listeners, progress, calls, otherVars>>

(* The test of the loop of renderAnimation. *)
LoopContinues(t, length) == t <= length

(* The await of clock.sync() resumes: the then-callback (progress.update), *)
(* the loop's increment and test, then the next frame up to its await, or  *)
(* the return of renderAnimation: to its caller, or to the await of        *)
(* renderAllAnimations.                                                    *)
AfterSync(c, outcome) ==
    /\ calls[c].pc = "sync"
    /\ LET call == calls[c]
           t == roundToN(call.time + Tick, 20)
           done == [call EXCEPT !.rendered.duration = Len(call.rendered.frames)]
       IN  IF outcome = ThrowUpdate
           THEN /\ budget >= Cost(outcome)
                /\ Commit(c, Reject(ThrowInRender(call), Animator_selected, Timeline_time,
                                    scene))
           ELSE IF LoopContinues(t, Anim(call.animation).length)
           THEN /\ budget >= Cost(outcome)
                /\ outcome \in FrameOutcomes
                /\ \E sc \in Scenes(call.animation, t, outcome) :
                      Commit(c, RenderFrame(call, t, Animator_selected, outcome, sc, progress))
           ELSE /\ outcome = NoThrow
                /\ IF call.kind = "one"
                   THEN Commit(c, Unchanged(
                               [done EXCEPT !.pc = "done",
                                            !.returned = Some(done.rendered),
                                            !.post = Some([selected |-> Animator_selected,
                                                           time |-> Timeline_time])]))
                   ELSE Commit(c, Unchanged([done EXCEPT !.pc = "awaitRender"]))
    /\ UNCHANGED <<Animator_animations, Mode_selected, listeners, progress, otherVars>>

(* The await of renderAnimation in renderAllAnimations resumes (a          *)
(* microtask).  On a rejection the exception leaves renderAllAnimations.   *)
(* Otherwise: push the result, then the next animation up to its first     *)
(* await, or the restore and the return.                                   *)
AfterRender(c, outcome) ==
    /\ calls[c].pc \in {"awaitRender", "awaitRejected"}
    /\ LET call == [calls[c] EXCEPT !.pc = "sync",
                                    !.animations = Append(@, calls[c].rendered)]
       IN  IF calls[c].pc = "awaitRejected"
           THEN /\ outcome = NoThrow
                /\ Commit(c, Unchanged(Rethrow(calls[c])))
           ELSE IF call.animIdx < Len(Animator_animations)
           THEN /\ budget >= Cost(outcome)
                /\ Begin(c, call, call.animIdx + 1, Animator_animations[call.animIdx + 1],
                         outcome, progress)
           ELSE End(c, call, call.animations, outcome, 0)
    /\ UNCHANGED <<Animator_animations, Mode_selected, listeners, progress, otherVars>>

(* While a call awaits clock.sync() the host may run: the user selects an  *)
(* animation or moves the timeline and the editor previews it.  It is a    *)
(* task of its own: it does not run while a microtask (the resumption of   *)
(* renderAllAnimations) is due.                                            *)
HostCallback ==
    /\ budget > 0
    /\ \E c \in 1..Len(calls) : calls[c].pc = "sync"
    /\ \A c \in 1..Len(calls) : calls[c].pc \notin {"awaitRender", "awaitRejected"}
    /\ \E sel \in UserSelections(Animator_animations), t \in {Tick} :
          /\ Animator_selected' = sel
          /\ Timeline_time' = t
          /\ scene' = PreviewOf(sel, t)
    /\ budget' = budget - 1
    /\ UNCHANGED <<Animator_animations, Mode_selected, listeners, lastAnimation,
                   previousFrame, lastPass, progress, calls, otherVars>>

Next ==
    \/ \E outcome \in Outcomes : RenderAllAnimations(outcome)
    \/ \E animId \in CallerAnimations(Animator_animations), outcome \in Outcomes :
          RenderAnimation(animId, outcome)
    \/ \E animId \in CallerAnimations(Animator_animations), t \in CallerTimes,
          outcome \in Outcomes :
          GetAnimationNodes(animId, t, outcome)
    \/ \E c \in 1..Len(calls), outcome \in Outcomes : AfterSync(c, outcome)
    \/ \E c \in 1..Len(calls), outcome \in Outcomes : AfterRender(c, outcome)
    \/ HostCallback

Spec == Init /\ [][Next]_vars

SpecLong == InitLong /\ [][Next]_vars

----------------------------------------------------------------------------
(* Reading the frames of the calls *)

CallIds == 1..Len(calls)

(* Call c renders an animation: calls[c].rendered holds its frames so far. *)
Renders(c) == calls[c].animation # "none"

CurAnim(c) == calls[c].animation

Frames(c) == calls[c].rendered.frames

Sampled(c, i) == calls[c].sampledLog[i].sampled

(* The animations call c has rendered whole. *)
Completed(c) ==
    IF calls[c].kind = "all"
    THEN IF calls[c].pc = "awaitRender"
         THEN Append(calls[c].animations, calls[c].rendered)
         ELSE calls[c].animations
    ELSE IF calls[c].kind = "one" /\ calls[c].pc = "done" THEN <<calls[c].rendered>>
    ELSE <<>>

EntryIn(frame, uuid) ==
    CHOOSE e \in {frame.nodes[k] : k \in 1..Len(frame.nodes)} : e.uuid = uuid

HasEntry(frame, uuid) == \E k \in 1..Len(frame.nodes) : frame.nodes[k].uuid = uuid

(* The index of the most recent frame in frames[1..i] with an entry for uuid (0: none). *)
RECURSIVE LatestEntry(_, _, _)
LatestEntry(frames, uuid, i) ==
    IF i = 0 THEN 0
    ELSE IF HasEntry(frames[i], uuid) THEN i
    ELSE LatestEntry(frames, uuid, i - 1)

(* The nodes getAnimationNodes selects: exported and affected. *)
Selected(animId) ==
    {RigNodeMap[k].uuid : k \in {j \in 1..Len(RigNodeMap) :
        RigNodeMap[j].export /\ ~Ignored(Anim(animId), RigNodeMap[j].uuid)}}

NodeOf(uuid) == CHOOSE n \in {RigNodeMap[k] : k \in 1..Len(RigNodeMap)} : n.uuid = uuid

OnGrid(t) == t % Tick = 0

----------------------------------------------------------------------------
(* C1: within one renderAnimation that began with the diff state reset,    *)
(* replaying the emitted entries reconstructs the sampled pose: for every  *)
(* frame i and every exported, affected node, the node's most recent entry *)
(* in frames[1..i] exists and carries the matrix and the interpolation     *)
(* marker sampled for the node at frame i.                                 *)
C1_ReplayReconstructsPose ==
    \A c \in CallIds :
        (Renders(c) /\ calls[c].resetAtStart) =>
            \A i \in 1..Len(Frames(c)) : \A u \in Selected(CurAnim(c)) :
                LET j == LatestEntry(Frames(c), u, i)
                IN  /\ j > 0
                    /\ EntryIn(Frames(c)[j], u).matrix = Sampled(c, i)[u].matrix
                    /\ EntryIn(Frames(c)[j], u).interpolation = Sampled(c, i)[u].interpolation

(* C2 as stated: in a frame after the first frame of an animation a node  *)
(* is in the nodes list only if its sampled matrix differs from the matrix *)
(* sampled for it at the preceding frame.  The frames are those of         *)
(* getAnimationNodes; the first frame of an animation is the one that      *)
(* resets previousFrame; the preceding frame of a node is the latest one   *)
(* since then that sampled it.                                             *)
C2_OnlyIfMatrixChanged ==
    ~lastPass.reset =>
        \A k \in 1..Len(lastPass.nodes) :
            LET e == lastPass.nodes[k]
            IN  e.uuid \in DOMAIN lastPass.prior =>
                    e.matrix # lastPass.prior[e.uuid].matrix

(* C2 as amended: ... only if its sampled matrix or its interpolation      *)
(* marker differs from the matrix and marker sampled for it at the         *)
(* preceding frame.                                                        *)
C2_OnlyIfChanged ==
    ~lastPass.reset =>
        \A k \in 1..Len(lastPass.nodes) :
            LET e == lastPass.nodes[k]
            IN  e.uuid \in DOMAIN lastPass.prior =>
                    \/ e.matrix # lastPass.prior[e.uuid].matrix
                    \/ e.interpolation # lastPass.prior[e.uuid].interpolation

(* A later frame holds a node whose matrix changed, holds another for its  *)
(* marker alone, and leaves out a third that it sampled unchanged.         *)
C2_Witness ==
    /\ ~lastPass.reset
    /\ \E k \in 1..Len(lastPass.nodes) :
          LET e == lastPass.nodes[k]
          IN  /\ e.uuid \in DOMAIN lastPass.prior
              /\ e.matrix # lastPass.prior[e.uuid].matrix
    /\ \E k \in 1..Len(lastPass.nodes) :
          LET e == lastPass.nodes[k]
          IN  /\ e.uuid \in DOMAIN lastPass.prior
              /\ e.matrix = lastPass.prior[e.uuid].matrix
    /\ \E u \in DOMAIN lastPass.prior \cap DOMAIN lastPass.sampled :
          /\ lastPass.sampled[u] = lastPass.prior[u]
          /\ \A k \in 1..Len(lastPass.nodes) : lastPass.nodes[k].uuid # u

(* C3: the frames returned for the project's animations do not depend on   *)
(* an earlier run: two completed runs of renderAllAnimations return the    *)
(* same frames.                                                            *)
C3_RunsAgree ==
    \A c, d \in CallIds :
        (/\ c < d
         /\ calls[c].kind = "all" /\ calls[c].pc = "done"
         /\ calls[d].kind = "all" /\ calls[d].pc = "done")
            => calls[d].returned = calls[c].returned

(* C4: for an animation whose length is a whole number of ticks,           *)
(* renderAnimation returns one frame per tick, frames[k].time = k/20 for   *)
(* k = 0..20*length, and duration = frames.length.                         *)
C4_OneFramePerTick ==
    \A c \in CallIds : \A k \in 1..Len(Completed(c)) :
        LET r == Completed(c)[k]
        IN  OnGrid(Anim(r.animation).length) =>
                /\ Len(r.frames) = Anim(r.animation).length \div Tick + 1
                /\ \A f \in 1..Len(r.frames) : r.frames[f].time = (f - 1) * Tick
                /\ r.duration = Len(r.frames)

C4_Witness ==
    \E c \in CallIds : \E k \in 1..Len(Completed(c)) :
        LET r == Completed(c)[k]
        IN  /\ Anim(r.animation).length = 2 * Tick
            /\ Len(r.frames) = 3
            /\ r.frames[3].time = 2 * Tick

(* C5: when renderAllAnimations has completed, the selected animation and  *)
(* the timeline time are what they were when it was called.                *)
C5_EditorRestored ==
    \A c \in CallIds :
        (calls[c].kind = "all" /\ calls[c].pc = "done") => calls[c].post = Some(calls[c].pre)

(* C6: a bone entry carries 'instant' exactly when the bone's animator has *)
(* a step keyframe at the frame's time; a bone emitted with 'instant' at   *)
(* frame i that has no step keyframe at frame i+1 is emitted at frame i+1  *)
(* with 'default'; camera and locator entries carry no marker.             *)
C6_MarkerBracketsDiscontinuity ==
    \A c \in CallIds :
        Renders(c) =>
            \A i \in 1..Len(Frames(c)) : \A k \in 1..Len(Frames(c)[i].nodes) :
                LET e == Frames(c)[i].nodes[k]
                    animation == Anim(CurAnim(c))
                IN  /\ e.type = "bone" =>
                          ((e.interpolation = "instant")
                              <=> HasStepKeyframe(animation, e.uuid, Frames(c)[i].time))
                    /\ (/\ e.type = "bone"
                        /\ e.interpolation = "instant"
                        /\ i < Len(Frames(c))
                        /\ ~HasStepKeyframe(animation, e.uuid, Frames(c)[i + 1].time))
                          => /\ HasEntry(Frames(c)[i + 1], e.uuid)
                             /\ EntryIn(Frames(c)[i + 1], e.uuid).interpolation = "default"
                    /\ e.type \in {"camera", "locator"} => e.interpolation = "none"

Channels == {"variants", "commands", "animationStates"}

EventOf(frame, channel) ==
    IF channel = "variants" THEN frame.variant
    ELSE IF channel = "commands" THEN frame.commands
    ELSE frame.animationState

KeyframesOf(animation, channel) ==
    IF channel \in DOMAIN animation.effects THEN animation.effects[channel] ELSE <<>>

(* The first keyframe of its channel at its time. *)
IsFirstAtItsTime(kfs, j) == \A h \in 1..(j - 1) : kfs[h].time # kfs[j].time

(* Every frame of r carries the events of its time. *)
EventsMatch(r) ==
    \A ch \in Channels :
        LET kfs == KeyframesOf(Anim(r.animation), ch)
        IN  \A i \in 1..Len(r.frames) :
                LET ev == EventOf(r.frames[i], ch)
                    at == {j \in 1..Len(kfs) : kfs[j].time = r.frames[i].time}
                IN  /\ (ev # None) <=> (at # {})
                    /\ ev # None =>
                          \E j \in at :
                              /\ IsFirstAtItsTime(kfs, j)
                              /\ ev[1].value = kfs[j].value
                              /\ ev[1].executeCondition = kfs[j].executeCondition

(* Every keyframe on the grid that is the first at its time is in exactly  *)
(* one frame of r.                                                         *)
EventsOnce(r) ==
    \A ch \in Channels :
        LET kfs == KeyframesOf(Anim(r.animation), ch)
        IN  \A j \in 1..Len(kfs) :
                (/\ OnGrid(kfs[j].time)
                 /\ kfs[j].time >= 0 /\ kfs[j].time <= Anim(r.animation).length
                 /\ IsFirstAtItsTime(kfs, j))
                  => Cardinality({i \in 1..Len(r.frames) :
                         /\ EventOf(r.frames[i], ch) # None
                         /\ r.frames[i].time = kfs[j].time
                         /\ EventOf(r.frames[i], ch)[1].value = kfs[j].value}) = 1

(* C7: a frame carries a variant (commands, animationState) event exactly  *)
(* when the effects animator has a keyframe of that channel at the frame's *)
(* time, with the data of the first such keyframe; once the animation is   *)
(* rendered, every effect keyframe on the tick grid within [0, length]     *)
(* that is the first of its channel at its time is in exactly one frame.   *)
C7_EventsByExactTime ==
    \A c \in CallIds :
        /\ Renders(c) => EventsMatch(calls[c].rendered)
        /\ \A k \in 1..Len(Completed(c)) :
              EventsMatch(Completed(c)[k]) /\ EventsOnce(Completed(c)[k])

(* A rendered animation with two variant keyframes at one frame's time:    *)
(* the frame carries the first, and a frame without keyframe carries none. *)
C7_Witness ==
    \E c \in CallIds : \E k \in 1..Len(Completed(c)) :
        LET r == Completed(c)[k]
            kfs == KeyframesOf(Anim(r.animation), "variants")
        IN  /\ \E i \in 1..Len(r.frames) :
                  /\ Cardinality({j \in 1..Len(kfs) : kfs[j].time = r.frames[i].time}) = 2
                  /\ r.frames[i].variant # None
            /\ \E i \in 1..Len(r.frames) :
                  r.frames[i].variant = None /\ r.frames[i].commands # None

NoDuplicates(s) == \A i, j \in 1..Len(s) : i # j => s[i] # s[j]

(* An exception has left call c, or the renderAnimation it awaits. *)
Failed(c) == calls[c].pc \in {"awaitRejected", "rejected"}

(* C9: no retry or recovery.  No frame time of an animation is posed twice *)
(* in a call.  Once an exception has left a frame of renderAllAnimations   *)
(* (or a host call after it), the call has returned nothing to its caller  *)
(* (no partial list) and the last frame it posed stays its last; all it    *)
(* does from then on, whatever else runs, is to pass the exception on to   *)
(* its caller.                                                             *)
C9_NoRetryNoRecovery ==
    /\ [](\A c \in CallIds :
             /\ NoDuplicates(calls[c].posedLog)
             /\ (calls[c].kind = "all" /\ Renders(c) /\ Failed(c)) =>
                   /\ calls[c].returned = None
                   /\ calls[c].posedLog # <<>>
                   /\ calls[c].posedLog[Len(calls[c].posedLog)]
                         = <<CurAnim(c), calls[c].time>>)
    /\ [][\A c \in CallIds :
             /\ calls[c].pc = "rejected" => calls'[c] = calls[c]
             /\ calls[c].pc = "awaitRejected" =>
                   \/ calls'[c] = calls[c]
                   \/ calls'[c] = [calls[c] EXCEPT !.pc = "rejected"]]_vars

(* The first frame of a call of renderAllAnimations threw; while the       *)
(* exception was on its way a later call posed and sampled a frame; then   *)
(* the exception reached the caller.                                       *)
C9_Witness ==
    \E c, d \in CallIds :
        /\ c < d
        /\ calls[c].kind = "all"
        /\ calls[c].pc = "rejected"
        /\ Len(calls[c].posedLog) = 1
        /\ Frames(d) # <<>>

(* The frames recorded so far by a call. *)
RECURSIVE CountFrames(_)
CountFrames(done) ==
    IF done = <<>> THEN 0 ELSE Len(done[1].frames) + CountFrames(Tail(done))

(* The animations a call renders, in order. *)
Rendering(c) == IF calls[c].kind = "all" THEN Animator_animations ELSE <<CurAnim(c)>>

(* What may follow a pose in a call's log of poses. *)
ExpectedNext(list, entry) ==
    LET animId == entry[1]
        t == entry[2]
    IN  IF t + Tick <= Anim(animId).length
        THEN {<<animId, t + Tick>>}
        ELSE {<<list[k + 1], 0>> : k \in {h \in 1..(Len(list) - 1) : list[h] = animId}}

(* Frames are posed in order, one animation after the other, each posed    *)
(* only when the one before was recorded.                                  *)
PosedInOrder(c) ==
    LET log == calls[c].posedLog
    IN  /\ ~Failed(c) =>
              Len(log) = CountFrames(calls[c].animations)
                            + (IF calls[c].pc = "done" /\ calls[c].kind = "all"
                               THEN 0 ELSE Len(Frames(c)))
        /\ log # <<>> => log[1] = <<Rendering(c)[1], 0>>
        /\ \A k \in 1..(Len(log) - 1) : log[k + 1] \in ExpectedNext(Rendering(c), log[k])

(* C10: every frame's nodes are read from the scene as                    *)
(* updatePreview(animation, t) left it for the frame's own animation and   *)
(* time, whatever the host or another call did while the call awaited;     *)
(* frames are posed in order, one animation after the other, each posed    *)
(* only when the one before was recorded.                                  *)
C10_SequentialAtomicFrames ==
    \A c \in CallIds :
        Renders(c) =>
            /\ \A i \in 1..Len(Frames(c)) :
                  LET posed == dispatchEvent(listeners,
                                             HostPose(CurAnim(c), Frames(c)[i].time))
                  IN  /\ \A u \in Selected(CurAnim(c)) :
                            Sampled(c, i)[u].matrix = SampleMatrix(NodeOf(u), posed)
                      /\ \A k \in 1..Len(Frames(c)[i].nodes) :
                            Frames(c)[i].nodes[k].matrix
                                = SampleMatrix(NodeOf(Frames(c)[i].nodes[k].uuid), posed)
            /\ PosedInOrder(c)

(* The user selected another animation and previewed it while the call     *)
(* awaited, and the call then posed and recorded its next frame: the scene *)
(* is that frame's pose, not the previewed one.                            *)
C10_Witness ==
    /\ Len(calls) = 1
    /\ Renders(1)
    /\ calls[1].pc = "sync"
    /\ Len(Frames(1)) >= 2
    /\ Animator_selected # CurAnim(1)
    /\ scene = updatePreview(CurAnim(1), calls[1].time).scene
    /\ scene # PreviewOf(Animator_selected, Tick)
    /\ HasEntry(Frames(1)[1], "l1")

(* The uuids listed in animation.affected_bones. *)
Listed(animation) ==
    {animation.affected_bones[k] : k \in 1..Len(animation.affected_bones)}

(* The nodes the claim expects: exported and selected by the               *)
(* affected-bones rule.                                                    *)
ExpectedNodes(animation) ==
    {u \in NodeIds :
        /\ NodeOf(u).export
        /\ IF animation.affected_bones_is_a_whitelist
           THEN u \in Listed(animation)
           ELSE u \notin Listed(animation)}

(* C11: starting from a reset diff state the first frame of an animation   *)
(* holds exactly one entry for each node of the nodeMap that is exported   *)
(* and selected by the affected-bones rule (listed for a whitelist, not    *)
(* listed for a blacklist), and no frame holds an entry of another node.   *)
C11_NodeSelection ==
    \A c \in CallIds :
        Renders(c) =>
            LET expected == ExpectedNodes(Anim(CurAnim(c)))
                first == Frames(c)[1].nodes
            IN  /\ (calls[c].resetAtStart /\ Len(Frames(c)) >= 1) =>
                      /\ {first[k].uuid : k \in 1..Len(first)} = expected
                      /\ Len(first) = Cardinality(expected)
                /\ \A i \in 1..Len(Frames(c)) : \A k \in 1..Len(Frames(c)[i].nodes) :
                      Frames(c)[i].nodes[k].uuid \in expected

(* A whitelist that lists a node that is not exported and leaves out       *)
(* exported ones, rendered from a reset into a second, non-empty frame.    *)
C11_Witness ==
    \E c \in CallIds :
        /\ Renders(c) /\ calls[c].resetAtStart
        /\ Anim(CurAnim(c)).affected_bones_is_a_whitelist
        /\ \E u \in Listed(Anim(CurAnim(c))) : ~NodeOf(u).export
        /\ \E u \in NodeIds : NodeOf(u).export /\ u \notin Listed(Anim(CurAnim(c)))
        /\ Len(Frames(c)) >= 2
        /\ Len(Frames(c)[1].nodes) = 3
        /\ Len(Frames(c)[2].nodes) > 0

----------------------------------------------------------------------------
(* createMCFile: the summon functions of the statue exporter.              *)
(* bones: name -> [customModelData, armorItems], armorItems being the      *)
(* CustomModelData of ArmorItems[3] when bone.nbt brings its own           *)
(* ArmorItems.  staticFrame: the bones in Object.entries order with their  *)
(* exported flag.  variantModels: in Object.entries order, each with the   *)
(* customModelData of the bones it contains.                               *)

BoneNames == {"head", "body", "tail"}

StaticFrame ==
    << [boneName |-> "head", exported |-> TRUE],
       [boneName |-> "body", exported |-> TRUE],
       [boneName |-> "tail", exported |-> FALSE] >>

OverrideValues == {11, 12}

VariantMaps ==
    UNION {[bs -> OverrideValues] : bs \in SUBSET {"head", "body"}}

VariantLists ==
    UNION {[1..n -> [name : {"v"}, models : VariantMaps]] : n \in 0..MaxVariants}

NameVariants(list) ==
    [i \in 1..Len(list) |-> [name |-> "v" \o ToString(i), models |-> list[i].models]]

MCInputs ==
    {[bones |-> [head |-> [customModelData |-> 1, armorItems |-> None],
                 body |-> [customModelData |-> 2, armorItems |-> a],
                 tail |-> [customModelData |-> 3, armorItems |-> None]],
      staticFrame |-> StaticFrame,
      variantModels |-> NameVariants(vl),
      settings |-> [idScoreboardObjective |-> id, internalScoreboardObjective |-> internal]] :
        a \in {None, Some(9)}, vl \in VariantLists,
        id \in {"aj.id", "my.id"}, internal \in {"aj.i", "my.i"}}

(* The loop over staticFrame: one summon per exported bone, with the       *)
(* CustomModelData its ArmorItems[3] holds.                                *)
RECURSIVE BuildSummons(_, _, _)
BuildSummons(bones, staticFrame, i) ==
    IF i > Len(staticFrame) THEN <<>>
    ELSE IF ~staticFrame[i].exported THEN BuildSummons(bones, staticFrame, i + 1)
    ELSE LET bone == bones[staticFrame[i].boneName]
         IN  <<[boneName |-> staticFrame[i].boneName,
                customModelData |-> IF bone.armorItems = None
                                    THEN bone.customModelData
                                    ELSE bone.armorItems[1]]>>
             \o BuildSummons(bones, staticFrame, i + 1)

(* The inner loop over summons: ArmorItems[3] of the summon is replaced    *)
(* when the variant contains the bone.                                     *)
ApplyVariant(summons, variant) ==
    [k \in 1..Len(summons) |->
        IF summons[k].boneName \in DOMAIN variant.models
        THEN [summons[k] EXCEPT !.customModelData = variant.models[summons[k].boneName]]
        ELSE summons[k]]

(* The loop over variantModels: the summons are changed in place and       *)
(* stringified into the variant's function.                                *)
RECURSIVE SummonFunctions(_, _, _)
SummonFunctions(variantModels, i, summons) ==
    IF i > Len(variantModels) THEN <<>>
    ELSE LET changed == ApplyVariant(summons, variantModels[i])
         IN  <<[name |-> variantModels[i].name, summons |-> changed]>>
             \o SummonFunctions(variantModels, i + 1, changed)

(* dir summon { ... } of the generated file. *)
SummonDir(in) ==
    SummonFunctions(in.variantModels, 1, BuildSummons(in.bones, in.staticFrame, 1))

(* const scoreboards = { id, internal } from the exporter's settings. *)
Scoreboards(settings) ==
    [id |-> settings.idScoreboardObjective, internal |-> settings.internalScoreboardObjective]

(* function install: one `scoreboard objectives add` per entry of           *)
(* scoreboards, in Object.entries order.                                   *)
InstallObjectives(scoreboards) == <<scoreboards.id, scoreboards.internal>>

(* remove/this: the objective the bones' ids are compared in, and every    *)
(* objective the function names.                                           *)
RemoveThisScores(scoreboards) ==
    [idObjective |-> scoreboards.id, referenced |-> {scoreboards.id}]

(* summon/<variant>: the objective the bones' ids are written in, and      *)
(* every objective the function names.                                     *)
SummonScores(scoreboards) ==
    [idObjective |-> "aj.id", referenced |-> {"aj.id", "aj.i"}]

(* set_variant/<variant>: the objective the bones' ids are compared in,    *)
(* and every objective the function names.                                 *)
SetVariantScores(scoreboards) ==
    [idObjective |-> "aj.id", referenced |-> {"aj.id"}]

(* The scoreboard side of the generated file: install, remove/this and one *)
(* summon and one set_variant function per variant.                        *)
GeneratedScores(in) ==
    LET scoreboards == Scoreboards(in.settings)
    IN  [install |-> InstallObjectives(scoreboards),
         removeThis |-> RemoveThisScores(scoreboards),
         summon |-> [i \in 1..Len(in.variantModels) |-> SummonScores(scoreboards)],
         setVariant |-> [i \in 1..Len(in.variantModels) |-> SetVariantScores(scoreboards)]]

(* The sampler has not been called. *)
SamplerIdle ==
    /\ Animator_animations = <<>>
    /\ Mode_selected = "edit"
    /\ Animator_selected = "none"
    /\ Timeline_time = 0
    /\ scene = RestPose
    /\ listeners = {}
    /\ lastAnimation = "none"
    /\ previousFrame = EmptyDiff
    /\ lastPass = NoPass
    /\ progress = FALSE
    /\ calls = <<>>
    /\ budget = 0

InitMC ==
    /\ SamplerIdle
    /\ mcIn \in {Some(in) : in \in MCInputs}
    /\ mcOut = None
    /\ mcFile = None
    /\ modInstalled = FALSE
    /\ installedContext = 0
    /\ elementPresent = FALSE
    /\ hasPostMount = FALSE
    /\ mounts = <<>>

(* createMCFile has no await: it runs whole. *)
CreateMCFile ==
    /\ mcOut = None
    /\ mcOut' = Some(SummonDir(mcIn[1]))
    /\ mcFile' = Some(GeneratedScores(mcIn[1]))
    /\ UNCHANGED <<samplerVars, mcIn, injVars>>

NextMC == CreateMCFile

SpecMC == InitMC /\ [][NextMC]_vars

(* The CustomModelData of the bone's summon before any variant is applied. *)
DefaultCustomModelData(bone) ==
    IF bone.armorItems = None THEN bone.customModelData ELSE bone.armorItems[1]

(* C8: in every variant's summon function the CustomModelData of every     *)
(* exported bone is the variant's own override when the variant contains   *)
(* the bone and the bone's default otherwise: no override of an earlier    *)
(* variant shows in a later variant's function.                            *)
C8_SummonPerBonePerVariant ==
    mcOut # None =>
        LET in == mcIn[1]
            out == mcOut[1]
        IN  /\ Len(out) = Len(in.variantModels)
            /\ \A i \in 1..Len(out) : \A k \in 1..Len(out[i].summons) :
                  LET b == out[i].summons[k].boneName
                  IN  out[i].summons[k].customModelData
                        = IF b \in DOMAIN in.variantModels[i].models
                          THEN in.variantModels[i].models[b]
                          ELSE DefaultCustomModelData(in.bones[b])

----------------------------------------------------------------------------
(* injectSvelteCompomponent: a mod whose install callback polls for the    *)
(* target element and mounts the component when it is found, and whose     *)
(* uninstall callback destroys the context it is handed.                   *)
(* A mount is [polling, constructed, destroyed, postMounts] with two       *)
(* history fields: uninstalled (the installation that made it has ended)   *)
(* and late (it was constructed after that).                               *)

InitInject ==
    /\ SamplerIdle
    /\ mcIn = None
    /\ mcOut = None
    /\ mcFile = None
    /\ modInstalled = FALSE
    /\ installedContext = 0
    /\ elementPresent \in BOOLEAN
    /\ hasPostMount \in BOOLEAN
    /\ mounts = <<>>

(* `let instance` and the pending pollPromise(...).then(...) of one run of *)
(* the install callback.                                                   *)
NewMount ==
    [polling |-> TRUE, constructed |-> FALSE, destroyed |-> FALSE, postMounts |-> 0,
     uninstalled |-> FALSE, late |-> FALSE]

(* `return instance`: the value of the closure variable when the install   *)
(* callback returns (0: undefined).                                        *)
ReturnedInstance(k, mount) == IF mount.constructed THEN k ELSE 0

(* createBlockbenchMod: the mod's uninstall callback is handed what its    *)
(* install callback returned.                                              *)
ExtractContext(ctx) == ctx

(* pollPromise resolves once the selector returns an element. *)
PollResolves(present) == present

(* The mod is installed: the install callback runs up to its return; the   *)
(* then-callback of the poll runs later.                                   *)
Install ==
    /\ ~modInstalled
    /\ Len(mounts) < MaxInstalls
    /\ modInstalled' = TRUE
    /\ mounts' = Append(mounts, NewMount)
    /\ installedContext' = ReturnedInstance(Len(mounts) + 1, NewMount)
    /\ UNCHANGED <<samplerVars, mcVars, elementPresent, hasPostMount>>

(* The then-callback of pollPromise: construct the component on the        *)
(* element, then call postMount when it is given.                          *)
PollResolve(k) ==
    /\ mounts[k].polling
    /\ PollResolves(elementPresent)
    /\ mounts' = [mounts EXCEPT ![k] =
                     [@ EXCEPT !.polling = FALSE,
                               !.constructed = TRUE,
                               !.late = @ \/ mounts[k].uninstalled,
                               !.postMounts = IF hasPostMount THEN @ + 1 ELSE @]]
    /\ UNCHANGED <<samplerVars, mcVars, modInstalled, installedContext, elementPresent,
                   hasPostMount>>

(* The mod is uninstalled: if (context) context.$destroy() *)
Uninstall ==
    /\ modInstalled
    /\ modInstalled' = FALSE
    /\ LET ctx == ExtractContext(installedContext)
       IN  mounts' = [k \in 1..Len(mounts) |->
                        [mounts[k] EXCEPT !.uninstalled = TRUE,
                                          !.destroyed = @ \/ (ctx # 0 /\ ctx = k)]]
    /\ UNCHANGED <<samplerVars, mcVars, installedContext, elementPresent, hasPostMount>>

(* The host's page gains or loses the target element. *)
ElementChanges ==
    /\ elementPresent' = ~elementPresent
    /\ UNCHANGED <<samplerVars, mcVars, modInstalled, installedContext, hasPostMount, mounts>>

NextInject ==
    \/ Install
    \/ \E k \in 1..Len(mounts) : PollResolve(k)
    \/ Uninstall
    \/ ElementChanges

SpecInject == InitInject /\ [][NextInject]_vars

(* C12: once the mod is uninstalled no constructed component is left       *)
(* without $destroy; no component is constructed after the uninstall of    *)
(* the installation that polls for it; postMount is called at most once    *)
(* per installation and only when the component was constructed.           *)
C12_InjectedComponentCleanedUp ==
    \A k \in 1..Len(mounts) :
        /\ (mounts[k].uninstalled /\ mounts[k].constructed) => mounts[k].destroyed
        /\ ~mounts[k].late
        /\ mounts[k].postMounts <= 1
        /\ mounts[k].postMounts > 0 => mounts[k].constructed

----------------------------------------------------------------------------
(* C13: every scoreboard objective the generated summon, remove and        *)
(* set_variant functions name is one the generated install function        *)
(* creates, and the objective summon writes the bones' ids in is the one   *)
(* remove/this and set_variant compare them in.                            *)
C13_ObjectivesMatchInstall ==
    mcFile # None =>
        LET f == mcFile[1]
            created == {f.install[k] : k \in 1..Len(f.install)}
        IN  /\ f.removeThis.referenced \subseteq created
            /\ \A i \in 1..Len(f.summon) :
                  /\ f.summon[i].referenced \subseteq created
                  /\ f.summon[i].idObjective = f.removeThis.idObjective
            /\ \A i \in 1..Len(f.setVariant) :
                  /\ f.setVariant[i].referenced \subseteq created
                  /\ \A j \in 1..Len(f.summon) :
                        f.summon[j].idObjective = f.setVariant[i].idObjective

====
